---------------------------- MODULE Spec2Model ----------------------------
(***************************************************************************)
(* The authentication middleware of the oCIS proxy                         *)
(* (services/proxy/pkg/middleware, src/unnamed/part_002 lines 16-236):     *)
(* the package-level list SupportedAuthStrategies, middleware construction *)
(* (Authentication / configureSupportedChallenges) and the per-request     *)
(* handler returned by Authentication, step by step.                       *)
(*                                                                         *)
(* Go strings are kept in the state as TLA+ strings; every operation that  *)
(* looks inside a string (HasPrefix, Contains, the regexp, Title, Sprintf) *)
(* works on its characters, given by the table Chars.                      *)
(***************************************************************************)
EXTENDS Naturals, Integers, Sequences, FiniteSets, TLC

(***************************************************************************)
(* Bounds of the model.                                                    *)
(***************************************************************************)
\* longest list of Authenticators handed to Authentication
MaxAuths == 2
\* number of middleware constructions in one process
MaxConstruct == 2

(***************************************************************************)
(* The characters of every string the model uses.                          *)
(***************************************************************************)
Chars ==
       "/" :> <<"/">>
    @@ "/login" :> <<"/", "l", "o", "g", "i", "n">>
    @@ "/config.json" :> <<"/", "c", "o", "n", "f", "i", "g", ".", "j", "s", "o", "n">>
    @@ "/oidc-callback.html" :> <<"/", "o", "i", "d", "c", "-", "c", "a", "l", "l", "b", "a", "c", "k", ".", "h", "t", "m", "l">>
    @@ "/oidc-callback" :> <<"/", "o", "i", "d", "c", "-", "c", "a", "l", "l", "b", "a", "c", "k">>
    @@ "/settings.js" :> <<"/", "s", "e", "t", "t", "i", "n", "g", "s", ".", "j", "s">>
    @@ "/.well-known" :> <<"/", ".", "w", "e", "l", "l", "-", "k", "n", "o", "w", "n">>
    @@ "/js" :> <<"/", "j", "s">>
    @@ "/themes" :> <<"/", "t", "h", "e", "m", "e", "s">>
    @@ "/signin" :> <<"/", "s", "i", "g", "n", "i", "n">>
    @@ "/konnect" :> <<"/", "k", "o", "n", "n", "e", "c", "t">>
    @@ "/konnect/v1/token" :> <<"/", "k", "o", "n", "n", "e", "c", "t", "/", "v", "1", "/", "t", "o", "k", "e", "n">>
    @@ "/dav/public-files/" :> <<"/", "d", "a", "v", "/", "p", "u", "b", "l", "i", "c", "-", "f", "i", "l", "e", "s", "/">>
    @@ "/remote.php/dav/public-files/" :> <<"/", "r", "e", "m", "o", "t", "e", ".", "p", "h", "p", "/", "d", "a", "v", "/", "p", "u", "b", "l", "i", "c", "-", "f", "i", "l", "e", "s", "/">>
    @@ "/remote.php/ocs/apps/files_sharing/api/v1/tokeninfo/unprotected" :> <<"/", "r", "e", "m", "o", "t", "e", ".", "p", "h", "p", "/", "o", "c", "s", "/", "a", "p", "p", "s", "/", "f", "i", "l", "e", "s", "_", "s", "h", "a", "r", "i", "n", "g", "/", "a", "p", "i", "/", "v", "1", "/", "t", "o", "k", "e", "n", "i", "n", "f", "o", "/", "u", "n", "p", "r", "o", "t", "e", "c", "t", "e", "d">>
    @@ "/ocs/v1.php/cloud/capabilities" :> <<"/", "o", "c", "s", "/", "v", "1", ".", "p", "h", "p", "/", "c", "l", "o", "u", "d", "/", "c", "a", "p", "a", "b", "i", "l", "i", "t", "i", "e", "s">>
    @@ "/data" :> <<"/", "d", "a", "t", "a">>
    @@ "bearer" :> <<"b", "e", "a", "r", "e", "r">>
    @@ "basic" :> <<"b", "a", "s", "i", "c">>
    @@ "/.well-known/openid-configuration" :> <<"/", ".", "w", "e", "l", "l", "-", "k", "n", "o", "w", "n", "/", "o", "p", "e", "n", "i", "d", "-", "c", "o", "n", "f", "i", "g", "u", "r", "a", "t", "i", "o", "n">>
    @@ "/js/app.js" :> <<"/", "j", "s", "/", "a", "p", "p", ".", "j", "s">>
    @@ "/loginx" :> <<"/", "l", "o", "g", "i", "n", "x">>
    @@ "/dav/public-files/abc" :> <<"/", "d", "a", "v", "/", "p", "u", "b", "l", "i", "c", "-", "f", "i", "l", "e", "s", "/", "a", "b", "c">>
    @@ "/database" :> <<"/", "d", "a", "t", "a", "b", "a", "s", "e">>
    @@ "/ocs/v1.php/cloud/users" :> <<"/", "o", "c", "s", "/", "v", "1", ".", "p", "h", "p", "/", "c", "l", "o", "u", "d", "/", "u", "s", "e", "r", "s">>
    @@ "/ocs/v2.php/cloud/user" :> <<"/", "o", "c", "s", "/", "v", "2", ".", "p", "h", "p", "/", "c", "l", "o", "u", "d", "/", "u", "s", "e", "r">>
    @@ "/ocs/v3.php/cloud/user" :> <<"/", "o", "c", "s", "/", "v", "3", ".", "p", "h", "p", "/", "c", "l", "o", "u", "d", "/", "u", "s", "e", "r">>
    @@ "/remote.php/webdav/doc.txt" :> <<"/", "r", "e", "m", "o", "t", "e", ".", "p", "h", "p", "/", "w", "e", "b", "d", "a", "v", "/", "d", "o", "c", ".", "t", "x", "t">>
    @@ "/remote.php/webdav/doc.txt?to=/ocs/v2.php/cloud/" :> <<"/", "r", "e", "m", "o", "t", "e", ".", "p", "h", "p", "/", "w", "e", "b", "d", "a", "v", "/", "d", "o", "c", ".", "t", "x", "t", "?", "t", "o", "=", "/", "o", "c", "s", "/", "v", "2", ".", "p", "h", "p", "/", "c", "l", "o", "u", "d", "/">>
    @@ "cloud.example" :> <<"c", "l", "o", "u", "d", ".", "e", "x", "a", "m", "p", "l", "e">>
    @@ "localhost" :> <<"l", "o", "c", "a", "l", "h", "o", "s", "t">>
    @@ "" :> <<>>
    @@ "LegacySyncClient/1.0" :> <<"L", "e", "g", "a", "c", "y", "S", "y", "n", "c", "C", "l", "i", "e", "n", "t", "/", "1", ".", "0">>
    @@ "LegacySyncClient" :> <<"L", "e", "g", "a", "c", "y", "S", "y", "n", "c", "C", "l", "i", "e", "n", "t">>
    @@ "Legacy" :> <<"L", "e", "g", "a", "c", "y">>
    @@ "Mozilla/5.0" :> <<"M", "o", "z", "i", "l", "l", "a", "/", "5", ".", "0">>
    @@ "Negotiate" :> <<"N", "e", "g", "o", "t", "i", "a", "t", "e">>
    @@ "//" :> <<"/", "/">>
    @@ "/x" :> <<"/", "x">>
    @@ "//x" :> <<"/", "/", "x">>
    @@ "/login/" :> <<"/", "l", "o", "g", "i", "n", "/">>
    @@ "/login/x" :> <<"/", "l", "o", "g", "i", "n", "/", "x">>
    @@ "/config.json/" :> <<"/", "c", "o", "n", "f", "i", "g", ".", "j", "s", "o", "n", "/">>
    @@ "/config.jsonx" :> <<"/", "c", "o", "n", "f", "i", "g", ".", "j", "s", "o", "n", "x">>
    @@ "/config.json/x" :> <<"/", "c", "o", "n", "f", "i", "g", ".", "j", "s", "o", "n", "/", "x">>
    @@ "/oidc-callback.html/" :> <<"/", "o", "i", "d", "c", "-", "c", "a", "l", "l", "b", "a", "c", "k", ".", "h", "t", "m", "l", "/">>
    @@ "/oidc-callback.htmlx" :> <<"/", "o", "i", "d", "c", "-", "c", "a", "l", "l", "b", "a", "c", "k", ".", "h", "t", "m", "l", "x">>
    @@ "/oidc-callback.html/x" :> <<"/", "o", "i", "d", "c", "-", "c", "a", "l", "l", "b", "a", "c", "k", ".", "h", "t", "m", "l", "/", "x">>
    @@ "/oidc-callback/" :> <<"/", "o", "i", "d", "c", "-", "c", "a", "l", "l", "b", "a", "c", "k", "/">>
    @@ "/oidc-callbackx" :> <<"/", "o", "i", "d", "c", "-", "c", "a", "l", "l", "b", "a", "c", "k", "x">>
    @@ "/oidc-callback/x" :> <<"/", "o", "i", "d", "c", "-", "c", "a", "l", "l", "b", "a", "c", "k", "/", "x">>
    @@ "/settings.js/" :> <<"/", "s", "e", "t", "t", "i", "n", "g", "s", ".", "j", "s", "/">>
    @@ "/settings.jsx" :> <<"/", "s", "e", "t", "t", "i", "n", "g", "s", ".", "j", "s", "x">>
    @@ "/settings.js/x" :> <<"/", "s", "e", "t", "t", "i", "n", "g", "s", ".", "j", "s", "/", "x">>
    @@ "/.well-known/" :> <<"/", ".", "w", "e", "l", "l", "-", "k", "n", "o", "w", "n", "/">>
    @@ "/.well-knownx" :> <<"/", ".", "w", "e", "l", "l", "-", "k", "n", "o", "w", "n", "x">>
    @@ "/.well-known/x" :> <<"/", ".", "w", "e", "l", "l", "-", "k", "n", "o", "w", "n", "/", "x">>
    @@ "/js/" :> <<"/", "j", "s", "/">>
    @@ "/jsx" :> <<"/", "j", "s", "x">>
    @@ "/js/x" :> <<"/", "j", "s", "/", "x">>
    @@ "/themes/" :> <<"/", "t", "h", "e", "m", "e", "s", "/">>
    @@ "/themesx" :> <<"/", "t", "h", "e", "m", "e", "s", "x">>
    @@ "/themes/x" :> <<"/", "t", "h", "e", "m", "e", "s", "/", "x">>
    @@ "/signin/" :> <<"/", "s", "i", "g", "n", "i", "n", "/">>
    @@ "/signinx" :> <<"/", "s", "i", "g", "n", "i", "n", "x">>
    @@ "/signin/x" :> <<"/", "s", "i", "g", "n", "i", "n", "/", "x">>
    @@ "/konnect/" :> <<"/", "k", "o", "n", "n", "e", "c", "t", "/">>
    @@ "/konnectx" :> <<"/", "k", "o", "n", "n", "e", "c", "t", "x">>
    @@ "/konnect/x" :> <<"/", "k", "o", "n", "n", "e", "c", "t", "/", "x">>
    @@ "/konnect/v1/token/" :> <<"/", "k", "o", "n", "n", "e", "c", "t", "/", "v", "1", "/", "t", "o", "k", "e", "n", "/">>
    @@ "/konnect/v1/tokenx" :> <<"/", "k", "o", "n", "n", "e", "c", "t", "/", "v", "1", "/", "t", "o", "k", "e", "n", "x">>
    @@ "/konnect/v1/token/x" :> <<"/", "k", "o", "n", "n", "e", "c", "t", "/", "v", "1", "/", "t", "o", "k", "e", "n", "/", "x">>
    @@ "/dav/public-files//" :> <<"/", "d", "a", "v", "/", "p", "u", "b", "l", "i", "c", "-", "f", "i", "l", "e", "s", "/", "/">>
    @@ "/dav/public-files/x" :> <<"/", "d", "a", "v", "/", "p", "u", "b", "l", "i", "c", "-", "f", "i", "l", "e", "s", "/", "x">>
    @@ "/dav/public-files//x" :> <<"/", "d", "a", "v", "/", "p", "u", "b", "l", "i", "c", "-", "f", "i", "l", "e", "s", "/", "/", "x">>
    @@ "/remote.php/dav/public-files//" :> <<"/", "r", "e", "m", "o", "t", "e", ".", "p", "h", "p", "/", "d", "a", "v", "/", "p", "u", "b", "l", "i", "c", "-", "f", "i", "l", "e", "s", "/", "/">>
    @@ "/remote.php/dav/public-files/x" :> <<"/", "r", "e", "m", "o", "t", "e", ".", "p", "h", "p", "/", "d", "a", "v", "/", "p", "u", "b", "l", "i", "c", "-", "f", "i", "l", "e", "s", "/", "x">>
    @@ "/remote.php/dav/public-files//x" :> <<"/", "r", "e", "m", "o", "t", "e", ".", "p", "h", "p", "/", "d", "a", "v", "/", "p", "u", "b", "l", "i", "c", "-", "f", "i", "l", "e", "s", "/", "/", "x">>
    @@ "/remote.php/ocs/apps/files_sharing/api/v1/tokeninfo/unprotected/" :> <<"/", "r", "e", "m", "o", "t", "e", ".", "p", "h", "p", "/", "o", "c", "s", "/", "a", "p", "p", "s", "/", "f", "i", "l", "e", "s", "_", "s", "h", "a", "r", "i", "n", "g", "/", "a", "p", "i", "/", "v", "1", "/", "t", "o", "k", "e", "n", "i", "n", "f", "o", "/", "u", "n", "p", "r", "o", "t", "e", "c", "t", "e", "d", "/">>
    @@ "/remote.php/ocs/apps/files_sharing/api/v1/tokeninfo/unprotectedx" :> <<"/", "r", "e", "m", "o", "t", "e", ".", "p", "h", "p", "/", "o", "c", "s", "/", "a", "p", "p", "s", "/", "f", "i", "l", "e", "s", "_", "s", "h", "a", "r", "i", "n", "g", "/", "a", "p", "i", "/", "v", "1", "/", "t", "o", "k", "e", "n", "i", "n", "f", "o", "/", "u", "n", "p", "r", "o", "t", "e", "c", "t", "e", "d", "x">>
    @@ "/remote.php/ocs/apps/files_sharing/api/v1/tokeninfo/unprotected/x" :> <<"/", "r", "e", "m", "o", "t", "e", ".", "p", "h", "p", "/", "o", "c", "s", "/", "a", "p", "p", "s", "/", "f", "i", "l", "e", "s", "_", "s", "h", "a", "r", "i", "n", "g", "/", "a", "p", "i", "/", "v", "1", "/", "t", "o", "k", "e", "n", "i", "n", "f", "o", "/", "u", "n", "p", "r", "o", "t", "e", "c", "t", "e", "d", "/", "x">>
    @@ "/ocs/v1.php/cloud/capabilities/" :> <<"/", "o", "c", "s", "/", "v", "1", ".", "p", "h", "p", "/", "c", "l", "o", "u", "d", "/", "c", "a", "p", "a", "b", "i", "l", "i", "t", "i", "e", "s", "/">>
    @@ "/ocs/v1.php/cloud/capabilitiesx" :> <<"/", "o", "c", "s", "/", "v", "1", ".", "p", "h", "p", "/", "c", "l", "o", "u", "d", "/", "c", "a", "p", "a", "b", "i", "l", "i", "t", "i", "e", "s", "x">>
    @@ "/ocs/v1.php/cloud/capabilities/x" :> <<"/", "o", "c", "s", "/", "v", "1", ".", "p", "h", "p", "/", "c", "l", "o", "u", "d", "/", "c", "a", "p", "a", "b", "i", "l", "i", "t", "i", "e", "s", "/", "x">>
    @@ "/data/" :> <<"/", "d", "a", "t", "a", "/">>
    @@ "/datax" :> <<"/", "d", "a", "t", "a", "x">>
    @@ "/data/x" :> <<"/", "d", "a", "t", "a", "/", "x">>
    @@ "/js/data" :> <<"/", "j", "s", "/", "d", "a", "t", "a">>
    @@ "/dav" :> <<"/", "d", "a", "v">>
    @@ "/dat" :> <<"/", "d", "a", "t">>
    @@ "/j" :> <<"/", "j">>
    @@ "/ocs" :> <<"/", "o", "c", "s">>
    @@ "/remote.php" :> <<"/", "r", "e", "m", "o", "t", "e", ".", "p", "h", "p">>

LowerLetters == <<"a", "b", "c", "d", "e", "f", "g", "h", "i", "j", "k", "l", "m",
                  "n", "o", "p", "q", "r", "s", "t", "u", "v", "w", "x", "y", "z">>
UpperLetters == <<"A", "B", "C", "D", "E", "F", "G", "H", "I", "J", "K", "L", "M",
                  "N", "O", "P", "Q", "R", "S", "T", "U", "V", "W", "X", "Y", "Z">>
Digits == {"0", "1", "2", "3", "4", "5", "6", "7", "8", "9"}

Range(f) == {f[x] : x \in DOMAIN f}

(***************************************************************************)
(* Go's strings package, on character sequences.                           *)
(***************************************************************************)
\* strings.HasPrefix(s, prefix)
HasPrefix(s, prefix) ==
    /\ Len(prefix) <= Len(s)
    /\ \A i \in 1..Len(prefix) : s[i] = prefix[i]

\* strings.Contains(s, substr): substr occurs in s at some offset
Contains(s, substr) ==
    \E off \in 0..(Len(s) - Len(substr)) :
        \A i \in 1..Len(substr) : s[off + i] = substr[i]

\* unicode.ToTitle on one ASCII character
ToTitle(c) ==
    IF \E i \in 1..26 : LowerLetters[i] = c
    THEN UpperLetters[CHOOSE i \in 1..26 : LowerLetters[i] = c]
    ELSE c

\* strings.isSeparator: ASCII letters, digits and underscore are not separators
IsSeparator(c) ==
    ~ (c \in Range(LowerLetters) \cup Range(UpperLetters) \cup Digits \cup {"_"})

\* Title leaving the scheme name as configured
Title_Unchanged(s) == s

\* strings.Title(s): the letter that begins each word is mapped to title case
Title(s) ==
    [i \in 1..Len(s) |->
        IF i = 1 \/ IsSeparator(s[i - 1]) THEN ToTitle(s[i]) ELSE s[i]]

(***************************************************************************)
(* regexp: the only pattern of the program, "/ocs/v[12].php/cloud/", is a  *)
(* sequence of one-character atoms: a literal, a class, or "." (any        *)
(* character but a newline).  MatchString is unanchored.                   *)
(***************************************************************************)
Lit(c) == [kind |-> "lit", chars |-> {c}]
Class(cs) == [kind |-> "class", chars |-> cs]
Dot == [kind |-> "dot", chars |-> {}]

AtomMatches(atom, c) ==
    IF atom.kind = "dot" THEN c # "\n" ELSE c \in atom.chars

MatchString(re, s) ==
    \E off \in 0..(Len(s) - Len(re)) :
        \A i \in 1..Len(re) : AtomMatches(re[i], s[off + i])

\* regexp.MustCompile("/ocs/v[12].php/cloud/")
ProxyWwwAuthenticate ==
    << <<Lit("/"), Lit("o"), Lit("c"), Lit("s"), Lit("/"), Lit("v"),
         Class({"1", "2"}), Dot, Lit("p"), Lit("h"), Lit("p"), Lit("/"),
         Lit("c"), Lit("l"), Lit("o"), Lit("u"), Lit("d"), Lit("/")>> >>

\* _publicPaths
_publicPaths ==
    << "/dav/public-files/",
       "/remote.php/dav/public-files/",
       "/remote.php/ocs/apps/files_sharing/api/v1/tokeninfo/unprotected",
       "/ocs/v1.php/cloud/capabilities",
       "/data" >>

(***************************************************************************)
(* Path classification.                                                    *)
(***************************************************************************)
\* isOIDCTokenAuth(req)
isOIDCTokenAuth(r) == r.Path = "/konnect/v1/token"

\* isPublicPath looking for the entry anywhere in the path
isPublicPath_Contains(p) ==
    \E i \in 1..Len(_publicPaths) : Contains(Chars[p], Chars[_publicPaths[i]])

\* isPublicPath(p)
isPublicPath(p) ==
    \E i \in 1..Len(_publicPaths) : HasPrefix(Chars[p], Chars[_publicPaths[i]])

\* IdPOwned with the "/.well-known" rule left out
IdPOwned_NoWellKnown(r) ==
    \/ r.Path = "/"
    \/ r.Path = "/login"
    \/ HasPrefix(Chars[r.Path], Chars["/js"])
    \/ HasPrefix(Chars[r.Path], Chars["/themes"])
    \/ HasPrefix(Chars[r.Path], Chars["/signin"])
    \/ HasPrefix(Chars[r.Path], Chars["/konnect"])
    \/ r.Path = "/config.json"
    \/ r.Path = "/oidc-callback.html"
    \/ r.Path = "/oidc-callback"
    \/ r.Path = "/settings.js"

\* the paths owned by the identity provider's UI and flow
IdPOwned(r) ==
    \/ r.Path = "/"
    \/ HasPrefix(Chars[r.Path], Chars["/.well-known"])
    \/ r.Path = "/login"
    \/ HasPrefix(Chars[r.Path], Chars["/js"])
    \/ HasPrefix(Chars[r.Path], Chars["/themes"])
    \/ HasPrefix(Chars[r.Path], Chars["/signin"])
    \/ HasPrefix(Chars[r.Path], Chars["/konnect"])
    \/ r.Path = "/config.json"
    \/ r.Path = "/oidc-callback.html"
    \/ r.Path = "/oidc-callback"
    \/ r.Path = "/settings.js"

\* IsBypass with the token endpoint sent through the chain
IsBypass_TokenThroughChain(r) == IdPOwned(r) /\ ~ isOIDCTokenAuth(r)

\* the condition of the first if of the handler: the request is left to the IdP
IsBypass(r) == isOIDCTokenAuth(r) \/ IdPOwned(r)

(***************************************************************************)
(* The challenge value:                                                    *)
(* fmt.Sprintf("%v realm=\"%s\", charset=\"UTF-8\"", strings.Title(s), host)*)
(***************************************************************************)
FmtRealm == <<" ", "r", "e", "a", "l", "m", "=", "\"">>
FmtCharset == <<"\"", ",", " ", "c", "h", "a", "r", "s", "e", "t", "=", "\"",
                "U", "T", "F", "-", "8", "\"">>

Challenge(scheme, host) ==
    Title(Chars[scheme]) \o FmtRealm \o Chars[host] \o FmtCharset

(***************************************************************************)
(* State.                                                                  *)
(***************************************************************************)
VARIABLES
    SupportedAuthStrategies, \* the package-level list of configured challenges
    options,                 \* the Options every construction is given
    auths,                   \* the Authenticators handed to Authentication
    constructed,             \* how many middleware constructions have run
    pc,                      \* per handler: its position in the handler
    req,                     \* per handler: the inbound request r
    idx,                     \* per handler: index of "for _, a := range auths"
    rng,                     \* per handler: the slice the challenge loop ranges over
    j,                       \* per handler: index of the challenge loop
    w,                       \* per handler: what the chain did to the ResponseWriter
    invoked,                 \* per handler: the Authenticate calls made, in order
    nextCalls,               \* per handler: the requests given to next.ServeHTTP
    cancelled,               \* per handler: the client of r has disconnected
    last,                    \* an earlier handling, kept to compare its repetition with
    oidcCalls                \* per handler: the requests given to oidc(next).ServeHTTP

vars == <<SupportedAuthStrategies, options, auths, constructed,
          pc, req, idx, rng, j, w, invoked, nextCalls, cancelled, last, oidcCalls>>

\* the handler invocations of the sequential specification
Handlers == {"h1"}

(***************************************************************************)
(* Inputs: configurations and requests.                                    *)
(***************************************************************************)
Issuers == {"", "https://idp"}

NoLocks == [k \in {} |-> "basic"]
LockMaps ==
    { NoLocks,
      "LegacySyncClient" :> "basic",
      ("LegacySyncClient" :> "basic") @@ ("Legacy" :> "bearer") }

OptionSet ==
    [OIDCIss : Issuers, EnableBasicAuth : BOOLEAN, CredentialsByUserAgent : LockMaps]

\* r.URL.Path and r.RequestURI of the sample requests
Targets ==
    { <<"/", "/">>,
      <<"/login", "/login">>,
      <<"/loginx", "/loginx">>,
      <<"/.well-known/openid-configuration", "/.well-known/openid-configuration">>,
      <<"/js/app.js", "/js/app.js">>,
      <<"/konnect/v1/token", "/konnect/v1/token">>,
      <<"/dav/public-files/abc", "/dav/public-files/abc">>,
      <<"/database", "/database">>,
      <<"/ocs/v1.php/cloud/capabilities", "/ocs/v1.php/cloud/capabilities">>,
      <<"/ocs/v1.php/cloud/users", "/ocs/v1.php/cloud/users">>,
      <<"/ocs/v2.php/cloud/user", "/ocs/v2.php/cloud/user">>,
      <<"/ocs/v3.php/cloud/user", "/ocs/v3.php/cloud/user">>,
      <<"/remote.php/webdav/doc.txt", "/remote.php/webdav/doc.txt">>,
      <<"/remote.php/webdav/doc.txt", "/remote.php/webdav/doc.txt?to=/ocs/v2.php/cloud/">> }

Hosts == {"cloud.example", "localhost"}
UserAgents == {"", "LegacySyncClient/1.0", "LegacySyncClient", "Legacy", "Mozilla/5.0"}
Methods == {"GET", "PROPFIND"}
\* Www-Authenticate values already on the response when the handler is entered
StagedHeaders == {<<>>, <<Chars["Negotiate"]>>}

\* accept: the Authenticators (by position) whose Authenticate returns ok=true
\* on this request; identity: 0 on the inbound request
Requests ==
    { [Path |-> t[1], RequestURI |-> t[2], Host |-> h, UserAgent |-> ua,
       Method |-> m, accept |-> acc, identity |-> 0] :
        t \in Targets, h \in Hosts, ua \in UserAgents, m \in Methods,
        acc \in SUBSET (1..Len(auths)) }

NoRequest == [Path |-> "/", RequestURI |-> "/", Host |-> "localhost", UserAgent |-> "",
              Method |-> "GET", accept |-> {}, identity |-> 0]

(***************************************************************************)
(* The Authenticator interface: Authenticate(r) returns a request and ok.  *)
(* The request returned with ok=true carries the identity resolved by      *)
(* Authenticator a; the one returned with ok=false is marked -a.           *)
(***************************************************************************)
Authenticate(a, r) ==
    LET ok == a \in r.accept
    IN  [req |-> [r EXCEPT !.identity = IF ok THEN a ELSE 0 - a], ok |-> ok]

(***************************************************************************)
(* The ResponseWriter, as far as the chain touches it: the values of the   *)
(* Www-Authenticate header, the status written (0: none), the body chunks  *)
(* written, and the log of the chain's calls on it; staged keeps the       *)
(* header values the response carried when the handler was entered.        *)
(***************************************************************************)
NewWriter(staged) ==
    [staged |-> staged, hdr |-> staged, status |-> 0, body |-> <<>>, log |-> <<>>]

\* w.Header().Add(WwwAuthenticate, v)
HeaderAdd(rw, v) ==
    [rw EXCEPT !.hdr = Append(@, v), !.log = Append(@, "Add")]

\* removeSuperfluousAuthenticate(w): w.Header().Del(WwwAuthenticate)
removeSuperfluousAuthenticate(rw) ==
    [rw EXCEPT !.hdr = <<>>, !.log = Append(@, "Del")]

\* w.WriteHeader(code)
WriteHeader(rw, code) ==
    [rw EXCEPT !.status = IF @ = 0 THEN code ELSE @, !.log = Append(@, "WriteHeader")]

\* w.Write(b)
Write(rw, b) ==
    [rw EXCEPT !.status = IF @ = 0 THEN 200 ELSE @,
               !.body = Append(@, b), !.log = Append(@, "Write")]

(***************************************************************************)
(* The webdav package (not part of the sources at hand).                   *)
(***************************************************************************)
WebdavMethods == {"PROPFIND", "PROPPATCH", "MKCOL", "COPY", "MOVE", "LOCK", "UNLOCK"}

IsWebdavRequest(r) == r.Method \in WebdavMethods

SabredavPermissionDenied == "permission-denied"

Marshal(e) ==
    [b |-> [xml |-> "d:error", code |-> e.Code, message |-> e.Message], err |-> FALSE]

StatusText401 == "Unauthorized"

HandleWebdavError(rw, b, err) ==
    IF err THEN Write(rw, StatusText401) ELSE Write(rw, b)

(***************************************************************************)
(* Challenge negotiation.                                                  *)
(***************************************************************************)
\* the keys of locks for which the test of evalRequestURI succeeds
\* LockKeyMatches refusing an empty User-Agent
LockKeyMatches_NonEmpty(k, userAgent) ==
    userAgent # "" /\ Contains(Chars[k], Chars[userAgent])

LockKeyMatches(k, userAgent) == Contains(Chars[k], Chars[userAgent])

\* evalRequestURI adding the locked challenge without removing the others
evalRequestURI_Append(rw, r, locks, fallback, re) ==
    IF ~ MatchString(re, Chars[r.RequestURI])
    THEN {rw}
    ELSE LET hits == {k \in DOMAIN locks : LockKeyMatches(k, r.UserAgent)}
         IN  IF hits # {}
             THEN { HeaderAdd(rw, Challenge(locks[k], r.Host)) : k \in hits }
             ELSE { HeaderAdd(rw, Challenge(fallback, r.Host)) }

\* evalRequestURI without the test of the request URI against the pattern
evalRequestURI_AnyURI(rw, r, locks, fallback, re) ==
    LET hits == {k \in DOMAIN locks : LockKeyMatches(k, r.UserAgent)}
    IN  IF hits # {}
        THEN { HeaderAdd(removeSuperfluousAuthenticate(rw),
                         Challenge(locks[k], r.Host)) : k \in hits }
        ELSE { HeaderAdd(rw, Challenge(fallback, r.Host)) }

\* evalRequestURI(l, r): the writers it can leave behind.  Go ranges over the
\* map l.locks in an unspecified order, so any matching key can be the first.
evalRequestURI(rw, r, locks, fallback, re) ==
    IF ~ MatchString(re, Chars[r.RequestURI])
    THEN {rw}
    ELSE LET hits == {k \in DOMAIN locks : LockKeyMatches(k, r.UserAgent)}
         IN  IF hits # {}
             THEN { HeaderAdd(removeSuperfluousAuthenticate(rw),
                              Challenge(locks[k], r.Host)) : k \in hits }
             ELSE { HeaderAdd(rw, Challenge(fallback, r.Host)) }

\* userAgentAuthenticateLockIn(w, r, locks, fallback), from pattern n on
RECURSIVE LockInFrom(_, _, _, _, _)
LockInFrom(rws, r, locks, fallback, n) ==
    IF n > Len(ProxyWwwAuthenticate)
    THEN rws
    ELSE LockInFrom(
            UNION { evalRequestURI(rw, r, locks, fallback, ProxyWwwAuthenticate[n]) :
                    rw \in rws },
            r, locks, fallback, n + 1)

userAgentAuthenticateLockIn(rw, r, locks, fallback) ==
    LockInFrom({rw}, r, locks, fallback, 1)

\* configureSupportedChallenges falling back to basic when nothing is enabled
configureSupportedChallenges_DefaultBasic(list, o) ==
    LET withBearer == IF o.OIDCIss # "" THEN Append(list, "bearer") ELSE list
    IN  IF o.EnableBasicAuth \/ o.OIDCIss = ""
        THEN Append(withBearer, "basic")
        ELSE withBearer

\* configureSupportedChallenges appending basic before bearer
configureSupportedChallenges_BasicFirst(list, o) ==
    LET withBasic == IF o.EnableBasicAuth THEN Append(list, "basic") ELSE list
    IN  IF o.OIDCIss # "" THEN Append(withBasic, "bearer") ELSE withBasic

\* configureSupportedChallenges(options): the list after the call
configureSupportedChallenges(list, o) ==
    LET withBearer == IF o.OIDCIss # "" THEN Append(list, "bearer") ELSE list
    IN  IF o.EnableBasicAuth THEN Append(withBearer, "basic") ELSE withBearer

(***************************************************************************)
(* Initial state: the package is initialised (SupportedAuthStrategies is   *)
(* nil), the configuration of the process is chosen, no middleware has     *)
(* been constructed and no handler runs.                                   *)
(***************************************************************************)
\* no earlier handling is kept
NoHandling == [kept |-> FALSE]

Init ==
    /\ SupportedAuthStrategies = <<>>
    /\ options \in OptionSet
    /\ \E n \in 0..MaxAuths : auths = [i \in 1..n |-> i]
    /\ constructed = 0
    /\ pc = [h \in Handlers |-> "idle"]
    /\ req = [h \in Handlers |-> NoRequest]
    /\ idx = [h \in Handlers |-> 1]
    /\ rng = [h \in Handlers |-> <<>>]
    /\ j = [h \in Handlers |-> 1]
    /\ w = [h \in Handlers |-> NewWriter(<<>>)]
    /\ invoked = [h \in Handlers |-> <<>>]
    /\ nextCalls = [h \in Handlers |-> <<>>]
    /\ cancelled = [h \in Handlers |-> FALSE]
    /\ last = NoHandling
    /\ oidcCalls = [h \in Handlers |-> <<>>]

(***************************************************************************)
(* Authentication(auths, opts...): newOptions, then                        *)
(* configureSupportedChallenges(options) appends to the package-level list.*)
(***************************************************************************)
Construct ==
    /\ constructed < MaxConstruct
    /\ constructed' = constructed + 1
    /\ SupportedAuthStrategies' =
           configureSupportedChallenges(SupportedAuthStrategies, options)
    /\ UNCHANGED <<options, auths, pc, req, idx, rng, j, w, invoked, nextCalls,
                   cancelled, last, oidcCalls>>

(***************************************************************************)
(* The handler, entered with a request that the first if hands to the IdP: *)
(* next.ServeHTTP(w, r); return.                                           *)
(***************************************************************************)
ServeBypass(self) ==
    /\ constructed >= 1
    /\ pc[self] = "idle"
    /\ \E r \in Requests, staged \in StagedHeaders :
        /\ IsBypass(r)
        /\ req' = [req EXCEPT ![self] = r]
        /\ w' = [w EXCEPT ![self] = NewWriter(staged)]
        /\ nextCalls' = [nextCalls EXCEPT ![self] = <<r>>]
    /\ invoked' = [invoked EXCEPT ![self] = <<>>]
    /\ idx' = [idx EXCEPT ![self] = 1]
    /\ rng' = [rng EXCEPT ![self] = <<>>]
    /\ j' = [j EXCEPT ![self] = 1]
    /\ pc' = [pc EXCEPT ![self] = "done"]
    /\ UNCHANGED <<SupportedAuthStrategies, options, auths, constructed,
                   cancelled, last, oidcCalls>>

(***************************************************************************)
(* The handler, entered with any other request: on to the loop over auths. *)
(***************************************************************************)
\* ServeChain taking a public path straight past the Authenticators
ServeChain_PublicSkips(self) ==
    /\ constructed >= 1
    /\ pc[self] = "idle"
    /\ \E r \in Requests, staged \in StagedHeaders :
        /\ ~ IsBypass(r)
        /\ req' = [req EXCEPT ![self] = r]
        /\ w' = [w EXCEPT ![self] = NewWriter(staged)]
        /\ idx' = [idx EXCEPT ![self] =
                      IF isPublicPath(r.Path) THEN Len(auths) + 1 ELSE 1]
    /\ nextCalls' = [nextCalls EXCEPT ![self] = <<>>]
    /\ invoked' = [invoked EXCEPT ![self] = <<>>]
    /\ rng' = [rng EXCEPT ![self] = <<>>]
    /\ j' = [j EXCEPT ![self] = 1]
    /\ pc' = [pc EXCEPT ![self] = "auth"]
    /\ UNCHANGED <<SupportedAuthStrategies, options, auths, constructed,
                   cancelled, last, oidcCalls>>

ServeChain(self) ==
    /\ constructed >= 1
    /\ pc[self] = "idle"
    /\ \E r \in Requests, staged \in StagedHeaders :
        /\ ~ IsBypass(r)
        /\ req' = [req EXCEPT ![self] = r]
        /\ w' = [w EXCEPT ![self] = NewWriter(staged)]
    /\ nextCalls' = [nextCalls EXCEPT ![self] = <<>>]
    /\ invoked' = [invoked EXCEPT ![self] = <<>>]
    /\ idx' = [idx EXCEPT ![self] = 1]
    /\ rng' = [rng EXCEPT ![self] = <<>>]
    /\ j' = [j EXCEPT ![self] = 1]
    /\ pc' = [pc EXCEPT ![self] = "auth"]
    /\ UNCHANGED <<SupportedAuthStrategies, options, auths, constructed,
                   cancelled, last, oidcCalls>>

(***************************************************************************)
(* One iteration of "for _, a := range auths":                             *)
(*     if req, ok := a.Authenticate(r); ok { next.ServeHTTP(w, req); return }*)
(***************************************************************************)
\* AuthAt ranging over auths from its end
AuthAt_Reversed(i) == auths[Len(auths) + 1 - i]

\* the Authenticator of iteration i
AuthAt(i) == auths[i]

\* the request handed to Authenticate in the iteration
\* AuthArg handing on the request the previous Authenticator returned
AuthArg_Carried(self) ==
    IF idx[self] > 1
    THEN Authenticate(AuthAt(idx[self] - 1), req[self]).req
    ELSE req[self]

AuthArg(self) == req[self]

\* ForwardedRequest forwarding r instead of req
ForwardedRequest_Original(self, res) == req[self]

\* the request handed to next.ServeHTTP after res = a.Authenticate(r) succeeded
ForwardedRequest(self, res) == res.req

\* AuthStep without the return after next.ServeHTTP: the loop goes on
AuthStep_NoReturn(self) ==
    /\ pc[self] = "auth"
    /\ idx[self] <= Len(auths)
    /\ LET a == AuthAt(idx[self])
           arg == AuthArg(self)
           res == Authenticate(a, arg)
       IN  /\ invoked' = [invoked EXCEPT ![self] =
                  Append(@, [a |-> a, arg |-> arg.identity, ok |-> res.ok])]
           /\ nextCalls' = [nextCalls EXCEPT ![self] =
                  IF res.ok THEN Append(@, ForwardedRequest(self, res)) ELSE @]
           /\ idx' = [idx EXCEPT ![self] = @ + 1]
           /\ pc' = pc
    /\ UNCHANGED <<SupportedAuthStrategies, options, auths, constructed,
                   req, rng, j, w, cancelled, last, oidcCalls>>

\* AuthStep starting the chain over once the last Authenticator has declined
AuthStep_Retry(self) ==
    /\ pc[self] = "auth"
    /\ idx[self] <= Len(auths)
    /\ LET a == AuthAt(idx[self])
           arg == AuthArg(self)
           res == Authenticate(a, arg)
       IN  /\ invoked' = [invoked EXCEPT ![self] =
                  Append(@, [a |-> a, arg |-> arg.identity, ok |-> res.ok])]
           /\ IF res.ok
              THEN /\ nextCalls' = [nextCalls EXCEPT ![self] =
                          Append(@, ForwardedRequest(self, res))]
                   /\ pc' = [pc EXCEPT ![self] = "done"]
                   /\ idx' = idx
              ELSE /\ idx' = [idx EXCEPT ![self] =
                                 IF @ = Len(auths) /\ Len(invoked[self]) < Len(auths)
                                 THEN 1 ELSE @ + 1]
                   /\ UNCHANGED <<nextCalls, pc>>
    /\ UNCHANGED <<SupportedAuthStrategies, options, auths, constructed,
                   req, rng, j, w, cancelled, last, oidcCalls>>

\* AuthStep staging a challenge each time an Authenticator declines
AuthStep_ChallengeOnDecline(self) ==
    /\ pc[self] = "auth"
    /\ idx[self] <= Len(auths)
    /\ LET a == AuthAt(idx[self])
           arg == AuthArg(self)
           res == Authenticate(a, arg)
       IN  /\ invoked' = [invoked EXCEPT ![self] =
                  Append(@, [a |-> a, arg |-> arg.identity, ok |-> res.ok])]
           /\ IF res.ok
              THEN /\ nextCalls' = [nextCalls EXCEPT ![self] =
                          Append(@, ForwardedRequest(self, res))]
                   /\ pc' = [pc EXCEPT ![self] = "done"]
                   /\ UNCHANGED <<idx, w>>
              ELSE /\ idx' = [idx EXCEPT ![self] = @ + 1]
                   /\ w' = [w EXCEPT ![self] =
                               HeaderAdd(@, Challenge("basic", req[self].Host))]
                   /\ UNCHANGED <<nextCalls, pc>>
    /\ UNCHANGED <<SupportedAuthStrategies, options, auths, constructed,
                   req, rng, j, cancelled, last, oidcCalls>>

AuthStep(self) ==
    /\ pc[self] = "auth"
    /\ idx[self] <= Len(auths)
    /\ LET a == AuthAt(idx[self])
           arg == AuthArg(self)
           res == Authenticate(a, arg)
       IN  /\ invoked' = [invoked EXCEPT ![self] =
                  Append(@, [a |-> a, arg |-> arg.identity, ok |-> res.ok])]
           /\ IF res.ok
              THEN /\ nextCalls' = [nextCalls EXCEPT ![self] =
                          Append(@, ForwardedRequest(self, res))]
                   /\ pc' = [pc EXCEPT ![self] = "done"]
                   /\ idx' = idx
              ELSE /\ idx' = [idx EXCEPT ![self] = @ + 1]
                   /\ UNCHANGED <<nextCalls, pc>>
    /\ UNCHANGED <<SupportedAuthStrategies, options, auths, constructed,
                   req, rng, j, w, cancelled, last, oidcCalls>>

(***************************************************************************)
(* The loop over auths is exhausted:                                       *)
(*     if !isPublicPath(r.URL.Path) { for _, s := range SupportedAuthStrategies *)
(* The range expression is evaluated once, here.                           *)
(***************************************************************************)
\* ChallengeRange without the isPublicPath test
ChallengeRange_IgnorePublic(r, list) == list

\* the schemes the challenge loop will go through
ChallengeRange(r, list) == IF ~ isPublicPath(r.Path) THEN list ELSE <<>>

\* AuthExhausted writing the status before the challenges are negotiated
AuthExhausted_StatusFirst(self) ==
    /\ pc[self] = "auth"
    /\ idx[self] > Len(auths)
    /\ rng' = [rng EXCEPT ![self] = ChallengeRange(req[self], SupportedAuthStrategies)]
    /\ j' = [j EXCEPT ![self] = 1]
    /\ w' = [w EXCEPT ![self] = WriteHeader(@, 401)]
    /\ pc' = [pc EXCEPT ![self] = "challenge"]
    /\ UNCHANGED <<SupportedAuthStrategies, options, auths, constructed,
                   req, idx, invoked, nextCalls, cancelled, last, oidcCalls>>

\* AuthExhausted configuring the challenges once more, inside the handler
AuthExhausted_Configures(self) ==
    /\ pc[self] = "auth"
    /\ idx[self] > Len(auths)
    /\ SupportedAuthStrategies' =
           configureSupportedChallenges(SupportedAuthStrategies, options)
    /\ rng' = [rng EXCEPT ![self] = ChallengeRange(req[self], SupportedAuthStrategies')]
    /\ j' = [j EXCEPT ![self] = 1]
    /\ pc' = [pc EXCEPT ![self] = "challenge"]
    /\ UNCHANGED <<options, auths, constructed,
                   req, idx, w, invoked, nextCalls, cancelled, last, oidcCalls>>

AuthExhausted(self) ==
    /\ pc[self] = "auth"
    /\ idx[self] > Len(auths)
    /\ rng' = [rng EXCEPT ![self] = ChallengeRange(req[self], SupportedAuthStrategies)]
    /\ j' = [j EXCEPT ![self] = 1]
    /\ pc' = [pc EXCEPT ![self] = "challenge"]
    /\ UNCHANGED <<SupportedAuthStrategies, options, auths, constructed,
                   req, idx, w, invoked, nextCalls, cancelled, last, oidcCalls>>

(***************************************************************************)
(* One iteration of the challenge loop:                                    *)
(*     userAgentAuthenticateLockIn(w, r, options.CredentialsByUserAgent, s) *)
(***************************************************************************)
LockInStep(self) ==
    /\ pc[self] = "challenge"
    /\ j[self] <= Len(rng[self])
    /\ \E rw \in userAgentAuthenticateLockIn(w[self], req[self],
                     options.CredentialsByUserAgent, rng[self][j[self]]) :
           w' = [w EXCEPT ![self] = rw]
    /\ j' = [j EXCEPT ![self] = @ + 1]
    /\ UNCHANGED <<SupportedAuthStrategies, options, auths, constructed,
                   pc, req, idx, rng, invoked, nextCalls, cancelled, last, oidcCalls>>

(***************************************************************************)
(* After the challenge loop:                                               *)
(*     w.WriteHeader(http.StatusUnauthorized)                              *)
(*     if webdav.IsWebdavRequest(r) { b, err := webdav.Marshal(...);       *)
(*                                    webdav.HandleWebdavError(w, b, err) }*)
(***************************************************************************)
StatusUnauthorized == 401

\* FailureBody without the IsWebdavRequest test
FailureBody_Always(rw, r) ==
    LET m == Marshal([Code |-> SabredavPermissionDenied,
                      Message |-> "Authentication error"])
    IN  HandleWebdavError(rw, m.b, m.err)

\* FailureBody writing nothing
FailureBody_None(rw, r) == rw

\* FailureBody skipped on public paths
FailureBody_NotPublic(rw, r) ==
    IF IsWebdavRequest(r) /\ ~ isPublicPath(r.Path)
    THEN LET m == Marshal([Code |-> SabredavPermissionDenied,
                           Message |-> "Authentication error"])
         IN  HandleWebdavError(rw, m.b, m.err)
    ELSE rw

FailureBody(rw, r) ==
    IF IsWebdavRequest(r)
    THEN LET m == Marshal([Code |-> SabredavPermissionDenied,
                           Message |-> "Authentication error"])
         IN  HandleWebdavError(rw, m.b, m.err)
    ELSE rw

Unauthorized(self) ==
    /\ pc[self] = "challenge"
    /\ j[self] > Len(rng[self])
    /\ w' = [w EXCEPT ![self] =
                FailureBody(WriteHeader(@, StatusUnauthorized), req[self])]
    /\ pc' = [pc EXCEPT ![self] = "done"]
    /\ UNCHANGED <<SupportedAuthStrategies, options, auths, constructed,
                   req, idx, rng, j, invoked, nextCalls, cancelled, last, oidcCalls>>

(***************************************************************************)
(* The handler has returned; the next request finds a fresh invocation.    *)
(***************************************************************************)
Return(self) ==
    /\ pc[self] = "done"
    /\ pc' = [pc EXCEPT ![self] = "idle"]
    /\ req' = [req EXCEPT ![self] = NoRequest]
    /\ idx' = [idx EXCEPT ![self] = 1]
    /\ rng' = [rng EXCEPT ![self] = <<>>]
    /\ j' = [j EXCEPT ![self] = 1]
    /\ w' = [w EXCEPT ![self] = NewWriter(<<>>)]
    /\ invoked' = [invoked EXCEPT ![self] = <<>>]
    /\ nextCalls' = [nextCalls EXCEPT ![self] = <<>>]
    /\ cancelled' = [cancelled EXCEPT ![self] = FALSE]
    /\ UNCHANGED <<SupportedAuthStrategies, options, auths, constructed, last, oidcCalls>>

\* The client disconnects while the handler is at the loop over auths (before
\* the first Authenticate call or between two calls), which cancels
\* r.Context(); the handler reads the context nowhere.
Cancel(self) ==
    /\ pc[self] = "auth"
    /\ idx[self] <= Len(auths)
    /\ ~ cancelled[self]
    /\ cancelled' = [cancelled EXCEPT ![self] = TRUE]
    /\ UNCHANGED <<SupportedAuthStrategies, options, auths, constructed,
                   pc, req, idx, rng, j, w, invoked, nextCalls, last, oidcCalls>>

Next ==
    \/ Construct
    \/ \E self \in Handlers :
        \/ ServeBypass(self)
        \/ ServeChain(self)
        \/ AuthStep(self)
        \/ AuthExhausted(self)
        \/ LockInStep(self)
        \/ Unauthorized(self)
        \/ Return(self)

Spec == Init /\ [][Next]_vars

\* The handler returns and its request, the response it was handed and what it
\* did are kept, to be compared with a repetition of the same request.
Remember(self) ==
    /\ pc[self] = "done"
    /\ ~ last.kept
    /\ last' = [kept |-> TRUE, req |-> req[self], staged |-> w[self].staged,
                rng |-> rng[self], status |-> w[self].status, hdr |-> w[self].hdr,
                body |-> w[self].body, nextCalls |-> nextCalls[self]]
    /\ pc' = [pc EXCEPT ![self] = "idle"]
    /\ req' = [req EXCEPT ![self] = NoRequest]
    /\ idx' = [idx EXCEPT ![self] = 1]
    /\ rng' = [rng EXCEPT ![self] = <<>>]
    /\ j' = [j EXCEPT ![self] = 1]
    /\ w' = [w EXCEPT ![self] = NewWriter(<<>>)]
    /\ invoked' = [invoked EXCEPT ![self] = <<>>]
    /\ nextCalls' = [nextCalls EXCEPT ![self] = <<>>]
    /\ cancelled' = [cancelled EXCEPT ![self] = FALSE]
    /\ UNCHANGED <<SupportedAuthStrategies, options, auths, constructed, oidcCalls>>

\* The handler is entered again with the request kept, the same credentials
\* and the same response headers staged.
ServeAgain(self) ==
    /\ last.kept
    /\ pc[self] = "idle"
    /\ req' = [req EXCEPT ![self] = last.req]
    /\ w' = [w EXCEPT ![self] = NewWriter(last.staged)]
    /\ nextCalls' = [nextCalls EXCEPT ![self] =
                        IF IsBypass(last.req) THEN <<last.req>> ELSE <<>>]
    /\ invoked' = [invoked EXCEPT ![self] = <<>>]
    /\ idx' = [idx EXCEPT ![self] = 1]
    /\ rng' = [rng EXCEPT ![self] = <<>>]
    /\ j' = [j EXCEPT ![self] = 1]
    /\ pc' = [pc EXCEPT ![self] = IF IsBypass(last.req) THEN "done" ELSE "auth"]
    /\ UNCHANGED <<SupportedAuthStrategies, options, auths, constructed,
                   cancelled, last, oidcCalls>>

\* a handling, then the same request handled once more under the same configuration
NextReplay ==
    \/ ~ last.kept /\ Next
    \/ \E self \in Handlers : Remember(self)
    \/ /\ last.kept
       /\ \E self \in Handlers :
            \/ ServeAgain(self)
            \/ AuthStep(self)
            \/ AuthExhausted(self)
            \/ LockInStep(self)
            \/ Unauthorized(self)

SpecReplay == Init /\ [][NextReplay]_vars

\* Request paths around every classification rule: each exact path and prefix
\* of the handler's first if and each entry of _publicPaths, alone and
\* continued, and paths that stop short of a rule or carry one further in.
PathSamples ==
    { "/",
      "//",
      "/x",
      "//x",
      "/login",
      "/login/",
      "/loginx",
      "/login/x",
      "/config.json",
      "/config.json/",
      "/config.jsonx",
      "/config.json/x",
      "/oidc-callback.html",
      "/oidc-callback.html/",
      "/oidc-callback.htmlx",
      "/oidc-callback.html/x",
      "/oidc-callback",
      "/oidc-callback/",
      "/oidc-callbackx",
      "/oidc-callback/x",
      "/settings.js",
      "/settings.js/",
      "/settings.jsx",
      "/settings.js/x",
      "/.well-known",
      "/.well-known/",
      "/.well-knownx",
      "/.well-known/x",
      "/js",
      "/js/",
      "/jsx",
      "/js/x",
      "/themes",
      "/themes/",
      "/themesx",
      "/themes/x",
      "/signin",
      "/signin/",
      "/signinx",
      "/signin/x",
      "/konnect",
      "/konnect/",
      "/konnectx",
      "/konnect/x",
      "/konnect/v1/token",
      "/konnect/v1/token/",
      "/konnect/v1/tokenx",
      "/konnect/v1/token/x",
      "/dav/public-files/",
      "/dav/public-files//",
      "/dav/public-files/x",
      "/dav/public-files//x",
      "/remote.php/dav/public-files/",
      "/remote.php/dav/public-files//",
      "/remote.php/dav/public-files/x",
      "/remote.php/dav/public-files//x",
      "/remote.php/ocs/apps/files_sharing/api/v1/tokeninfo/unprotected",
      "/remote.php/ocs/apps/files_sharing/api/v1/tokeninfo/unprotected/",
      "/remote.php/ocs/apps/files_sharing/api/v1/tokeninfo/unprotectedx",
      "/remote.php/ocs/apps/files_sharing/api/v1/tokeninfo/unprotected/x",
      "/ocs/v1.php/cloud/capabilities",
      "/ocs/v1.php/cloud/capabilities/",
      "/ocs/v1.php/cloud/capabilitiesx",
      "/ocs/v1.php/cloud/capabilities/x",
      "/data",
      "/data/",
      "/datax",
      "/data/x",
      "/js/data",
      "/dav",
      "/dat",
      "/j",
      "/ocs",
      "/remote.php" }

\* requests on the paths of PathSamples
PathRequests ==
    { [Path |-> p, RequestURI |-> p, Host |-> "cloud.example",
       UserAgent |-> "Mozilla/5.0", Method |-> "GET", accept |-> acc,
       identity |-> 0] :
        p \in PathSamples, acc \in SUBSET (1..Len(auths)) }

\* The handler is entered with a request of PathRequests: the first if
\* forwards it, or the chain is entered.
ServePath(self) ==
    /\ constructed >= 1
    /\ pc[self] = "idle"
    /\ \E r \in PathRequests :
        /\ req' = [req EXCEPT ![self] = r]
        /\ nextCalls' = [nextCalls EXCEPT ![self] =
                            IF IsBypass(r) THEN <<r>> ELSE <<>>]
        /\ pc' = [pc EXCEPT ![self] = IF IsBypass(r) THEN "done" ELSE "auth"]
    /\ w' = [w EXCEPT ![self] = NewWriter(<<>>)]
    /\ invoked' = [invoked EXCEPT ![self] = <<>>]
    /\ idx' = [idx EXCEPT ![self] = 1]
    /\ rng' = [rng EXCEPT ![self] = <<>>]
    /\ j' = [j EXCEPT ![self] = 1]
    /\ UNCHANGED <<SupportedAuthStrategies, options, auths, constructed,
                   cancelled, last, oidcCalls>>

\* the handler serving the paths around the classification rules
NextPaths ==
    \/ Construct
    \/ \E self \in Handlers :
        \/ ServePath(self)
        \/ AuthStep(self)
        \/ AuthExhausted(self)
        \/ LockInStep(self)
        \/ Unauthorized(self)
        \/ Return(self)

SpecPaths == Init /\ [][NextPaths]_vars

(***************************************************************************)
(* The handler AuthenticationOld returns.                                  *)
(***************************************************************************)
\* oidc(next).ServeHTTP(w, r): the request is given to the OIDC middleware,
\* which alone decides what becomes of it
OidcServeHTTP(self) == [oidcCalls EXCEPT ![self] = Append(@, req[self])]

\* the handler of AuthenticationOld is entered
ServeOld(self) ==
    /\ constructed >= 1
    /\ pc[self] = "idle"
    /\ \E r \in Requests, staged \in StagedHeaders :
        /\ req' = [req EXCEPT ![self] = r]
        /\ w' = [w EXCEPT ![self] = NewWriter(staged)]
    /\ nextCalls' = [nextCalls EXCEPT ![self] = <<>>]
    /\ invoked' = [invoked EXCEPT ![self] = <<>>]
    /\ oidcCalls' = [oidcCalls EXCEPT ![self] = <<>>]
    /\ idx' = [idx EXCEPT ![self] = 1]
    /\ rng' = [rng EXCEPT ![self] = <<>>]
    /\ j' = [j EXCEPT ![self] = 1]
    /\ pc' = [pc EXCEPT ![self] = "oldBoth"]
    /\ UNCHANGED <<SupportedAuthStrategies, options, auths, constructed,
                   cancelled, last>>

\* the condition of the first if: issuer set and Basic enabled
OldBothCondition(o) == o.OIDCIss # "" /\ o.EnableBasicAuth

\* the first if of the handler
OldBoth(self) ==
    /\ pc[self] = "oldBoth"
    /\ oidcCalls' = IF OldBothCondition(options) THEN OidcServeHTTP(self) ELSE oidcCalls
    /\ pc' = [pc EXCEPT ![self] = "oldOidcOnly"]
    /\ UNCHANGED <<SupportedAuthStrategies, options, auths, constructed,
                   req, idx, rng, j, w, invoked, nextCalls, cancelled, last>>

\* the second condition with the test of the Basic flag left out
OldOidcOnlyCondition_IssuerOnly(o) == o.OIDCIss # ""

\* the condition of the second if: issuer set and Basic disabled
OldOidcOnlyCondition(o) == o.OIDCIss # "" /\ ~ o.EnableBasicAuth

\* the second if of the handler, after which it returns
OldOidcOnly(self) ==
    /\ pc[self] = "oldOidcOnly"
    /\ oidcCalls' = IF OldOidcOnlyCondition(options) THEN OidcServeHTTP(self)
                                                      ELSE oidcCalls
    /\ pc' = [pc EXCEPT ![self] = "done"]
    /\ UNCHANGED <<SupportedAuthStrategies, options, auths, constructed,
                   req, idx, rng, j, w, invoked, nextCalls, cancelled, last>>

\* the handler of AuthenticationOld has returned
ReturnOld(self) ==
    /\ pc[self] = "done"
    /\ pc' = [pc EXCEPT ![self] = "idle"]
    /\ req' = [req EXCEPT ![self] = NoRequest]
    /\ w' = [w EXCEPT ![self] = NewWriter(<<>>)]
    /\ oidcCalls' = [oidcCalls EXCEPT ![self] = <<>>]
    /\ UNCHANGED <<SupportedAuthStrategies, options, auths, constructed,
                   idx, rng, j, invoked, nextCalls, cancelled, last>>

\* the middleware of AuthenticationOld: construction and its handler
NextOld ==
    \/ Construct
    \/ \E self \in Handlers :
        \/ ServeOld(self)
        \/ OldBoth(self)
        \/ OldOidcOnly(self)
        \/ ReturnOld(self)

SpecOld == Init /\ [][NextOld]_vars

\* The handler under the assumption that every Authenticate call, every header
\* and body write and the next handler return: a handler that can take its
\* next step takes it.
Returning ==
    \A self \in Handlers :
        /\ WF_vars(AuthStep(self))
        /\ WF_vars(AuthExhausted(self))
        /\ WF_vars(LockInStep(self))
        /\ WF_vars(Unauthorized(self))

SpecReturning == Init /\ [][Next]_vars /\ Returning

\* the handler serving clients that may disconnect while their request is handled
NextCancel ==
    \/ Next
    \/ \E self \in Handlers : Cancel(self)

SpecCancel == Init /\ [][NextCancel]_vars

(***************************************************************************)
(* Vocabulary of the properties.                                           *)
(***************************************************************************)
\* the paths the specification classifies bypass
BypassExactPaths ==
    {"/", "/login", "/config.json", "/oidc-callback.html", "/oidc-callback",
     "/settings.js"}
BypassPrefixes == {"/.well-known", "/js", "/themes", "/signin", "/konnect"}

BypassClassified(p) ==
    \/ p \in BypassExactPaths
    \/ \E pre \in BypassPrefixes : HasPrefix(Chars[p], Chars[pre])

\* the configured public-path prefixes
PublicPrefixes ==
    {"/dav/public-files/", "/remote.php/dav/public-files/",
     "/remote.php/ocs/apps/files_sharing/api/v1/tokeninfo/unprotected",
     "/ocs/v1.php/cloud/capabilities", "/data"}

PublicClassified(p) == \E pre \in PublicPrefixes : HasPrefix(Chars[p], Chars[pre])

\* every configured Authenticator returns ok=false on the request of handler h
AllDecline(h) == \A i \in 1..Len(auths) : auths[i] \notin req[h].accept

\* the position of the first Authenticator that returns ok=true on h's request
FirstAccepting(h) ==
    CHOOSE i \in 1..Len(auths) :
        /\ auths[i] \in req[h].accept
        /\ \A k \in 1..(i - 1) : auths[k] \notin req[h].accept

\* the request URI of handler h matches a lock-scope pattern
InLockScope(h) ==
    \E n \in 1..Len(ProxyWwwAuthenticate) :
        MatchString(ProxyWwwAuthenticate[n], Chars[req[h].RequestURI])

\* the lock keys the User-Agent of h's request contains as a substring
KeysInUserAgent(h) ==
    {k \in DOMAIN options.CredentialsByUserAgent :
        Contains(Chars[req[h].UserAgent], Chars[k])}

\* one challenge per scheme of list, in order, for host
ChallengesFor(list, host) == [i \in 1..Len(list) |-> Challenge(list[i], host)]

Occurrences(seq, x) == Cardinality({i \in 1..Len(seq) : seq[i] = x})

\* Basic realm="<host>", charset="UTF-8"
BasicChallengeText(host) ==
    <<"B", "a", "s", "i", "c">> \o FmtRealm \o Chars[host] \o FmtCharset

WebdavFault ==
    [xml |-> "d:error", code |-> "permission-denied", message |-> "Authentication error"]

(***************************************************************************)
(* C1.  A request whose path is bypass-classified, whatever credentials it *)
(* carries, has no Authenticator invoked on it, reaches the next handler   *)
(* exactly once as the original request, and the middleware writes no      *)
(* status, header or body.                                                 *)
(***************************************************************************)
C1_BypassForwardsUntouched ==
    \A h \in Handlers :
        (pc[h] # "idle" /\ BypassClassified(req[h].Path)) =>
            /\ pc[h] = "done"
            /\ invoked[h] = <<>>
            /\ nextCalls[h] = <<req[h]>>
            /\ req[h].identity = 0
            /\ w[h].log = <<>>
            /\ w[h].status = 0
            /\ w[h].body = <<>>
            /\ w[h].hdr = w[h].staged

\* a request to the discovery document carrying credentials every
\* Authenticator would accept has been forwarded
C1_Witness ==
    \E h \in Handlers :
        /\ pc[h] = "done"
        /\ req[h].Path = "/.well-known/openid-configuration"
        /\ Len(auths) = 2
        /\ req[h].accept = {1, 2}
        /\ nextCalls[h] = <<req[h]>>

(***************************************************************************)
(* C2.  A non-bypassed request that some configured Authenticator accepts  *)
(* reaches the next handler as the augmented request of the lowest-index   *)
(* accepting Authenticator, even when later ones accept too; the chain     *)
(* writes no 401.                                                          *)
(***************************************************************************)
C2_FirstMatchWins ==
    \A h \in Handlers :
        (pc[h] # "idle" /\ ~ BypassClassified(req[h].Path) /\ ~ AllDecline(h)) =>
            /\ w[h].status = 0
            /\ w[h].log = <<>>
            /\ pc[h] = "done" =>
                 nextCalls[h] =
                     << [req[h] EXCEPT !.identity = auths[FirstAccepting(h)]] >>

\* both Authenticators accept, the first one's request was forwarded
C2_Witness ==
    \E h \in Handlers :
        /\ pc[h] = "done"
        /\ ~ BypassClassified(req[h].Path)
        /\ Len(auths) = 2
        /\ req[h].accept = {1, 2}
        /\ Len(nextCalls[h]) = 1
        /\ nextCalls[h][1].identity = 1

(***************************************************************************)
(* C3.  A normal request (neither bypass nor public) that every            *)
(* Authenticator declines is answered 401 with exactly one                 *)
(* Www-Authenticate value per supported scheme, in order, unless a lock    *)
(* rule matches, and then with exactly one value, for the locked scheme.   *)
(* Stated for the requests that find at least one scheme supported.        *)
(***************************************************************************)
C3_NormalFailureChallenges ==
    \A h \in Handlers :
        ( /\ pc[h] = "done"
          /\ ~ BypassClassified(req[h].Path)
          /\ ~ PublicClassified(req[h].Path)
          /\ AllDecline(h)
          /\ rng[h] # <<>>
          /\ w[h].staged = <<>> ) =>
            /\ w[h].status = 401
            /\ IF InLockScope(h) /\ KeysInUserAgent(h) # {}
               THEN \E k \in KeysInUserAgent(h) :
                        w[h].hdr =
                            <<Challenge(options.CredentialsByUserAgent[k], req[h].Host)>>
               ELSE w[h].hdr = ChallengesFor(rng[h], req[h].Host)

(***************************************************************************)
(* C4.  A request on a public path that every Authenticator declines is    *)
(* answered 401 and the chain attaches no Www-Authenticate value, whatever *)
(* the supported schemes, the lock mapping, the request URI and the        *)
(* User-Agent.                                                             *)
(***************************************************************************)
C4_PublicFailureBare ==
    \A h \in Handlers :
        (pc[h] = "done" /\ PublicClassified(req[h].Path) /\ AllDecline(h)) =>
            /\ w[h].status = 401
            /\ w[h].hdr = w[h].staged
            /\ Occurrences(w[h].log, "Add") = 0
            /\ Occurrences(w[h].log, "Del") = 0

\* a declined request on a public path that is also lock-scoped, with two
\* supported schemes and a lock key the code takes as matching
C4_Witness ==
    \E h \in Handlers :
        /\ pc[h] = "done"
        /\ req[h].Path = "/ocs/v1.php/cloud/capabilities"
        /\ InLockScope(h)
        /\ req[h].UserAgent = "LegacySyncClient"
        /\ DOMAIN options.CredentialsByUserAgent # {}
        /\ SupportedAuthStrategies = <<"bearer", "basic">>
        /\ Len(auths) = 2
        /\ AllDecline(h)
        /\ w[h].staged = <<>>
        /\ w[h].hdr = <<>>
        /\ w[h].status = 401

(***************************************************************************)
(* C5.  A non-bypassed request ends in exactly one of two outcomes, never  *)
(* both: Authenticated (next handler called once, no 401 written) or       *)
(* Unauthenticated (401 written once, next handler never called); it ends  *)
(* Unauthenticated iff every configured Authenticator returned ok=false.   *)
(***************************************************************************)
Authenticated(h) ==
    /\ Len(nextCalls[h]) = 1
    /\ w[h].status = 0
    /\ Occurrences(w[h].log, "WriteHeader") = 0

Unauthenticated(h) ==
    /\ nextCalls[h] = <<>>
    /\ w[h].status = 401
    /\ Occurrences(w[h].log, "WriteHeader") = 1

EveryAuthenticatorReturnedFalse(h) ==
    /\ Len(invoked[h]) = Len(auths)
    /\ \A k \in 1..Len(invoked[h]) : ~ invoked[h][k].ok

C5_ExactlyOneOutcome ==
    \A h \in Handlers :
        (pc[h] # "idle" /\ ~ BypassClassified(req[h].Path)) =>
            /\ ~ (nextCalls[h] # <<>> /\ w[h].status # 0)
            /\ pc[h] = "done" =>
                 /\ Authenticated(h) \/ Unauthenticated(h)
                 /\ ~ (Authenticated(h) /\ Unauthenticated(h))
                 /\ Unauthenticated(h) <=> EveryAuthenticatorReturnedFalse(h)
                 /\ Unauthenticated(h) <=> AllDecline(h)

\* two Authenticators were asked, both declined, 401 was written
C5_Witness ==
    \E h \in Handlers :
        /\ pc[h] = "done"
        /\ ~ BypassClassified(req[h].Path)
        /\ Len(invoked[h]) = 2
        /\ Unauthenticated(h)

(***************************************************************************)
(* C6.  Within one request the Authenticators are invoked in configured    *)
(* order: the k-th invocation is of Authenticator k, after 1..k-1 were     *)
(* each invoked once and returned ok=false; none is invoked twice, none    *)
(* after one returned ok=true.                                             *)
(***************************************************************************)
C6_InvokedInOrder ==
    \A h \in Handlers :
        /\ Len(invoked[h]) <= Len(auths)
        /\ \A k \in 1..Len(invoked[h]) :
            /\ invoked[h][k].a = auths[k]
            /\ k < Len(invoked[h]) => ~ invoked[h][k].ok

\* the first Authenticator declined, then the second accepted
C6_Witness ==
    \E h \in Handlers :
        /\ Len(invoked[h]) = 2
        /\ ~ invoked[h][1].ok
        /\ invoked[h][2].ok
        /\ pc[h] = "done"

(***************************************************************************)
(* C7.  For a failing non-public request on a lock-scoped URI, a lock key  *)
(* matches exactly when the User-Agent contains the key as a substring;    *)
(* when a key matches the challenge emitted names the scheme mapped to     *)
(* that key, and otherwise the supported schemes are advertised.           *)
(***************************************************************************)
C7_UserAgentContainsKey ==
    \A h \in Handlers :
        ( /\ pc[h] = "done"
          /\ ~ BypassClassified(req[h].Path)
          /\ ~ PublicClassified(req[h].Path)
          /\ AllDecline(h)
          /\ InLockScope(h)
          /\ rng[h] # <<>>
          /\ w[h].staged = <<>> ) =>
            IF KeysInUserAgent(h) # {}
            THEN \E k \in KeysInUserAgent(h) :
                     w[h].hdr =
                         <<Challenge(options.CredentialsByUserAgent[k], req[h].Host)>>
            ELSE w[h].hdr = ChallengesFor(rng[h], req[h].Host)

(***************************************************************************)
(* C8.  A credential-less WebDAV request to /remote.php/webdav/doc.txt     *)
(* with User-Agent "LegacySyncClient/1.0", lock mapping                    *)
(* {"LegacySyncClient": "basic"} and bearer and basic enabled is answered  *)
(* 401 with the single header Basic realm="<host>", charset="UTF-8" and a  *)
(* WebDAV fault body with code permission-denied.                          *)
(***************************************************************************)
C8_LegacySyncClientScenario ==
    \A h \in Handlers :
        ( /\ pc[h] = "done"
          /\ req[h].Path = "/remote.php/webdav/doc.txt"
          /\ req[h].RequestURI = "/remote.php/webdav/doc.txt"
          /\ req[h].UserAgent = "LegacySyncClient/1.0"
          /\ req[h].Method = "PROPFIND"
          /\ AllDecline(h)
          /\ options.CredentialsByUserAgent = ("LegacySyncClient" :> "basic")
          /\ options.OIDCIss # ""
          /\ options.EnableBasicAuth
          /\ rng[h] = <<"bearer", "basic">>
          /\ w[h].staged = <<>> ) =>
            /\ w[h].status = 401
            /\ w[h].hdr = <<BasicChallengeText(req[h].Host)>>
            /\ w[h].body = <<WebdavFault>>

(***************************************************************************)
(* C9.  Original statement: a request to /konnect/v1/token is forwarded to *)
(* the next handler only after an Authenticator (the Basic one) has been   *)
(* invoked on it and returned ok=true.                                     *)
(***************************************************************************)
C9_TokenEndpointAuthenticatedFirst ==
    \A h \in Handlers :
        (pc[h] = "done" /\ req[h].Path = "/konnect/v1/token" /\ nextCalls[h] # <<>>) =>
            \E k \in 1..Len(invoked[h]) : invoked[h][k].ok

(***************************************************************************)
(* C9, amended.  A request to /konnect/v1/token is forwarded to the next   *)
(* handler unchanged and unconditionally; no Authenticator, Basic or       *)
(* other, is invoked on it and the chain writes nothing.                   *)
(***************************************************************************)
C9_TokenEndpointLeftToIdP ==
    \A h \in Handlers :
        (pc[h] # "idle" /\ req[h].Path = "/konnect/v1/token") =>
            /\ pc[h] = "done"
            /\ invoked[h] = <<>>
            /\ nextCalls[h] = <<req[h]>>
            /\ w[h].log = <<>>

\* a token request no Authenticator would accept has been forwarded
C9_Witness ==
    \E h \in Handlers :
        /\ pc[h] = "done"
        /\ req[h].Path = "/konnect/v1/token"
        /\ Len(auths) = 2
        /\ AllDecline(h)
        /\ ~ options.EnableBasicAuth
        /\ nextCalls[h] = <<req[h]>>

DisplayName(scheme) ==
    CASE scheme = "bearer" -> <<"B", "e", "a", "r", "e", "r">>
      [] scheme = "basic" -> <<"B", "a", "s", "i", "c">>

\* <display name> realm="<host>", charset="UTF-8"
ChallengeText(scheme, host) ==
    DisplayName(scheme) \o FmtRealm \o Chars[host] \o FmtCharset

\* the lock keys that contain the User-Agent of h's request as a substring
KeysContainingUserAgent(h) ==
    {k \in DOMAIN options.CredentialsByUserAgent :
        Contains(Chars[k], Chars[req[h].UserAgent])}

\* handler h has answered a non-bypassed request that every Authenticator declined
Failed(h) ==
    /\ pc[h] = "done"
    /\ ~ BypassClassified(req[h].Path)
    /\ AllDecline(h)

(***************************************************************************)
(* C11.  An unauthenticated request recognised as a WebDAV operation is    *)
(* answered with status 401, never another code, written once and before   *)
(* the body; the body is the WebDAV fault built from code                  *)
(* permission-denied and message "Authentication error".                   *)
(***************************************************************************)
C11_WebdavFaultBody ==
    \A h \in Handlers :
        (Failed(h) /\ req[h].Method \in WebdavMethods) =>
            /\ w[h].status = 401
            /\ w[h].body = <<WebdavFault>>
            /\ Occurrences(w[h].log, "WriteHeader") = 1
            /\ Occurrences(w[h].log, "Write") = 1
            /\ w[h].log[Len(w[h].log)] = "Write"
            /\ w[h].log[Len(w[h].log) - 1] = "WriteHeader"

\* a declined PROPFIND on a normal path
C11_Witness ==
    \E h \in Handlers :
        /\ Failed(h)
        /\ req[h].Method = "PROPFIND"
        /\ req[h].Path = "/remote.php/webdav/doc.txt"
        /\ Len(auths) = 2
        /\ w[h].status = 401
        /\ w[h].body = <<WebdavFault>>

(***************************************************************************)
(* C13.  After any number of middleware constructions the shared list of   *)
(* supported schemes holds each enabled scheme exactly once: its length    *)
(* never exceeds 2 and no failing request receives the same challenge      *)
(* twice.                                                                  *)
(***************************************************************************)
C13_EachSchemeOnce ==
    /\ Len(SupportedAuthStrategies) <= 2
    /\ \A s \in {"bearer", "basic"} : Occurrences(SupportedAuthStrategies, s) <= 1
    /\ constructed >= 1 =>
         /\ Occurrences(SupportedAuthStrategies, "bearer") = 1 <=> options.OIDCIss # ""
         /\ Occurrences(SupportedAuthStrategies, "basic") = 1 <=> options.EnableBasicAuth
    /\ \A h \in Handlers :
         \A a, b \in 1..Len(w[h].hdr) :
             (Occurrences(w[h].log, "Add") > 0 /\ a # b) => w[h].hdr[a] # w[h].hdr[b]

(***************************************************************************)
(* C17.  Lock override replaces, never appends: a failing non-public       *)
(* request on a lock-scoped URI for which the lock resolution selects a    *)
(* scheme carries, after all N >= 1 supported schemes were processed,      *)
(* exactly one Www-Authenticate value, whatever N is and whatever values   *)
(* were staged on the response before.                                     *)
(***************************************************************************)
C17_LockOverrideReplaces ==
    \A h \in Handlers :
        ( /\ Failed(h)
          /\ ~ PublicClassified(req[h].Path)
          /\ InLockScope(h)
          /\ KeysContainingUserAgent(h) # {}
          /\ Len(rng[h]) >= 1 ) =>
            /\ Len(w[h].hdr) = 1
            /\ \E k \in KeysContainingUserAgent(h) :
                   w[h].hdr[1] =
                       ChallengeText(options.CredentialsByUserAgent[k], req[h].Host)

\* four schemes processed, a value staged before, one value left
C17_Witness ==
    \E h \in Handlers :
        /\ Failed(h)
        /\ ~ PublicClassified(req[h].Path)
        /\ InLockScope(h)
        /\ KeysContainingUserAgent(h) # {}
        /\ Len(rng[h]) = 4
        /\ w[h].staged # <<>>
        /\ Len(w[h].hdr) = 1

(***************************************************************************)
(* C18.  A failing non-public request whose URI is lock-scoped but for     *)
(* which no lock key matches carries one Www-Authenticate value per        *)
(* supported scheme, in the order of the list, each                        *)
(* <Title-cased scheme> realm="<request Host>", charset="UTF-8".           *)
(***************************************************************************)
C18_FallbackChallenges ==
    \A h \in Handlers :
        ( /\ Failed(h)
          /\ ~ PublicClassified(req[h].Path)
          /\ InLockScope(h)
          /\ KeysContainingUserAgent(h) = {} ) =>
            w[h].hdr =
                w[h].staged \o
                [i \in 1..Len(rng[h]) |-> ChallengeText(rng[h][i], req[h].Host)]

\* bearer then basic advertised to an agent no lock key matches
C18_Witness ==
    \E h \in Handlers :
        /\ Failed(h)
        /\ InLockScope(h)
        /\ ~ PublicClassified(req[h].Path)
        /\ DOMAIN options.CredentialsByUserAgent # {}
        /\ KeysContainingUserAgent(h) = {}
        /\ rng[h] = <<"bearer", "basic">>
        /\ w[h].staged = <<>>
        /\ w[h].hdr = <<ChallengeText("bearer", req[h].Host),
                        ChallengeText("basic", req[h].Host)>>

(***************************************************************************)
(* C19.  Lock rules affect only lock-scoped URIs: the status, the          *)
(* Www-Authenticate values and the body of the answer to a failing request *)
(* whose URI matches no lock-scope pattern are those fixed by its path,    *)
(* its method and the response it was handed; the lock mapping and the     *)
(* User-Agent have no part in them.                                        *)
(***************************************************************************)
C19_LocksOnlyInScope ==
    \A h \in Handlers :
        (Failed(h) /\ ~ InLockScope(h)) =>
            /\ w[h].status = 401
            /\ w[h].hdr = w[h].staged
            /\ Occurrences(w[h].log, "Add") = 0
            /\ Occurrences(w[h].log, "Del") = 0
            /\ w[h].body =
                   IF req[h].Method \in WebdavMethods THEN <<WebdavFault>> ELSE <<>>

\* an agent every lock key contains, two lock rules, two schemes, out of scope
C19_Witness ==
    \E h \in Handlers :
        /\ Failed(h)
        /\ ~ InLockScope(h)
        /\ ~ PublicClassified(req[h].Path)
        /\ Cardinality(KeysContainingUserAgent(h)) = 2
        /\ rng[h] = <<"bearer", "basic">>
        /\ w[h].staged # <<>>
        /\ w[h].hdr = w[h].staged

(***************************************************************************)
(* C20.  Original statement: a failing public-path request gets a bare     *)
(* 401, no challenge and no WebDAV fault body, even when it is a WebDAV    *)
(* operation.                                                              *)
(***************************************************************************)
C20_PublicFailureNoBody ==
    \A h \in Handlers :
        (Failed(h) /\ PublicClassified(req[h].Path)) =>
            /\ w[h].status = 401
            /\ w[h].hdr = w[h].staged
            /\ w[h].body = <<>>

(***************************************************************************)
(* C20, amended.  The body translation is applied whether or not the path  *)
(* is public: a failing public-path request gets 401 and no challenge, and *)
(* the WebDAV fault body exactly when it is a WebDAV operation; a failing  *)
(* non-public request gets the challenge calls, then 401, then the same    *)
(* body translation.                                                       *)
(***************************************************************************)
C20_BodyTranslationAlways ==
    \A h \in Handlers :
        Failed(h) =>
            LET n == Len(w[h].log)
                webdavOp == req[h].Method \in WebdavMethods
                tail == IF webdavOp THEN <<"WriteHeader", "Write">> ELSE <<"WriteHeader">>
            IN  /\ w[h].status = 401
                /\ w[h].body = IF webdavOp THEN <<WebdavFault>> ELSE <<>>
                /\ n >= Len(tail)
                /\ \A i \in 1..Len(tail) : w[h].log[n - Len(tail) + i] = tail[i]
                /\ \A i \in 1..(n - Len(tail)) : w[h].log[i] \in {"Add", "Del"}
                /\ PublicClassified(req[h].Path) => w[h].log = tail

\* a declined PROPFIND on a public share answered with the fault body
C20_Witness ==
    \E h \in Handlers :
        /\ Failed(h)
        /\ req[h].Path = "/dav/public-files/abc"
        /\ req[h].Method = "PROPFIND"
        /\ w[h].status = 401
        /\ w[h].hdr = <<>>
        /\ w[h].body = <<WebdavFault>>

(***************************************************************************)
(* C14.  Once a request is cancelled before the first Authenticator        *)
(* invocation or between two invocations, the chain invokes no further     *)
(* Authenticator for it and writes no response body for it.                *)
(***************************************************************************)
C14_CancelledAborts ==
    [][ \A h \in Handlers :
          cancelled[h] =>
              /\ Len(invoked'[h]) <= Len(invoked[h])
              /\ Len(w'[h].body) <= Len(w[h].body) ]_vars

(***************************************************************************)
(* C12.  Determinism: two handlings of the same request (path, request     *)
(* URI, Host, User-Agent, method) with the same Authenticator outcomes,    *)
(* under the same configuration and the same supported schemes, end in the *)
(* same outcome with the same Www-Authenticate header list, also when      *)
(* several lock keys match and map to different schemes.                   *)
(***************************************************************************)
C12_Deterministic ==
    \A h \in Handlers :
        ( /\ last.kept
          /\ pc[h] = "done"
          /\ req[h] = last.req
          /\ w[h].staged = last.staged
          /\ rng[h] = last.rng ) =>
            /\ nextCalls[h] = last.nextCalls
            /\ w[h].status = last.status
            /\ w[h].hdr = last.hdr

(***************************************************************************)
(* Vocabulary of the properties about the chain.                           *)
(***************************************************************************)
\* how many Authenticate calls the first-success rule allows on h's request
CallsDue(h) == IF AllDecline(h) THEN Len(auths) ELSE FirstAccepting(h)

\* the calls the first-success rule asks for on h's request, in chain order,
\* each on the inbound request
CallsExpected(h) ==
    [i \in 1..CallsDue(h) |->
        [a |-> auths[i], arg |-> 0, ok |-> auths[i] \in req[h].accept]]

(***************************************************************************)
(* C21.  Public classification does not skip authentication: on a public   *)
(* path the Authenticators are invoked as on a normal path (chain order,   *)
(* stopping at the first success); when one accepts, the augmented request *)
(* is forwarded and nothing is written; only when all have declined does   *)
(* the public classification show, in the absence of challenges.           *)
(***************************************************************************)
C21_PublicStillAuthenticates ==
    \A h \in Handlers :
        ( /\ pc[h] = "done"
          /\ PublicClassified(req[h].Path)
          /\ ~ BypassClassified(req[h].Path) ) =>
            /\ invoked[h] = CallsExpected(h)
            /\ ~ AllDecline(h) =>
                 /\ nextCalls[h] =
                        << [req[h] EXCEPT !.identity = auths[FirstAccepting(h)]] >>
                 /\ w[h].log = <<>>
            /\ AllDecline(h) =>
                 /\ nextCalls[h] = <<>>
                 /\ w[h].status = 401
                 /\ w[h].hdr = w[h].staged

\* a public share on which the first Authenticator declines and the second accepts
C21_Witness ==
    \E h \in Handlers :
        /\ pc[h] = "done"
        /\ req[h].Path = "/dav/public-files/abc"
        /\ Len(auths) = 2
        /\ req[h].accept = {auths[2]}
        /\ Len(invoked[h]) = 2
        /\ nextCalls[h] # <<>>
        /\ nextCalls[h][1].identity = auths[2]

(***************************************************************************)
(* C22.  Handling a request leaves the shared configuration as it was: no  *)
(* step of a handler (bypass, chain, challenge, answer, return) changes    *)
(* the supported-scheme list, the lock mapping or the other options; the   *)
(* list is written by middleware construction only.  The lock-scope        *)
(* patterns and the public-path list are fixed values of the package.      *)
(***************************************************************************)
C22_HandlingLeavesConfiguration ==
    [][ /\ options' = options
        /\ auths' = auths
        /\ (pc' # pc \/ w' # w \/ idx' # idx \/ j' # j \/ invoked' # invoked) =>
               /\ SupportedAuthStrategies' = SupportedAuthStrategies
               /\ constructed' = constructed
        /\ SupportedAuthStrategies' # SupportedAuthStrategies =>
               /\ constructed' = constructed + 1
               /\ SupportedAuthStrategies' =
                      configureSupportedChallenges(SupportedAuthStrategies, options) ]_vars

\* a declined, lock-matched request answered, the list being the one it ranged over
C22_Witness ==
    \E h \in Handlers :
        /\ Failed(h)
        /\ InLockScope(h)
        /\ KeysContainingUserAgent(h) # {}
        /\ constructed = 1
        /\ rng[h] = <<"bearer", "basic">>
        /\ SupportedAuthStrategies = rng[h]
        /\ w[h].status = 401

(***************************************************************************)
(* Vocabulary of the properties about the supported-scheme list.           *)
(***************************************************************************)
\* the list in force at startup: what one construction makes of the empty list
StartupSchemes ==
    (IF options.OIDCIss # "" THEN <<"bearer">> ELSE <<>>) \o
    (IF options.EnableBasicAuth THEN <<"basic">> ELSE <<>>)

(***************************************************************************)
(* C23.  Whatever the interleaving of request handling and middleware      *)
(* construction, a failing request ranges over the supported-scheme list   *)
(* in force at startup and its answer carries the status and at most the   *)
(* challenges it would get if handled alone under that list: no request    *)
(* observes a list that was appended to after startup.                     *)
(***************************************************************************)
C23_StartupListObserved ==
    \A h \in Handlers :
        ( /\ pc[h] \in {"challenge", "done"}
          /\ ~ BypassClassified(req[h].Path)
          /\ AllDecline(h) ) =>
            /\ rng[h] = IF PublicClassified(req[h].Path) THEN <<>> ELSE StartupSchemes
            /\ Len(w[h].hdr) <= Len(w[h].staged) + Len(StartupSchemes)
            /\ pc[h] = "done" => w[h].status = 401

(***************************************************************************)
(* C24.  Starting from the empty list, one middleware construction yields  *)
(* "bearer" if the OIDC issuer is non-empty, followed by "basic" if Basic  *)
(* auth is enabled: bearer is in the list iff the issuer is non-empty,     *)
(* basic iff the flag is set, each at most once, bearer before basic.      *)
(***************************************************************************)
C24_OneConstruction ==
    constructed = 1 =>
        /\ Occurrences(SupportedAuthStrategies, "bearer") =
               IF options.OIDCIss # "" THEN 1 ELSE 0
        /\ Occurrences(SupportedAuthStrategies, "basic") =
               IF options.EnableBasicAuth THEN 1 ELSE 0
        /\ \A i \in 1..Len(SupportedAuthStrategies) :
               SupportedAuthStrategies[i] \in {"bearer", "basic"}
        /\ \A i, k \in 1..Len(SupportedAuthStrategies) :
               (SupportedAuthStrategies[i] = "bearer" /\
                SupportedAuthStrategies[k] = "basic") => i < k

\* both schemes enabled, one construction done
C24_Witness ==
    /\ constructed = 1
    /\ options.OIDCIss # ""
    /\ options.EnableBasicAuth
    /\ SupportedAuthStrategies = <<"bearer", "basic">>

(***************************************************************************)
(* C25.  On the Unauthenticated path the response is produced in a fixed   *)
(* order: every add or delete of a Www-Authenticate value comes before the *)
(* 401 status is written, the status is written once, the WebDAV fault     *)
(* body, if any, is written after it, and no header is changed after the   *)
(* status.                                                                 *)
(***************************************************************************)
C25_HeadersStatusBody ==
    \A h \in Handlers :
        LET log == w[h].log
        IN  /\ Occurrences(log, "WriteHeader") <= 1
            /\ \A i, k \in 1..Len(log) :
                 /\ (i < k /\ log[i] = "WriteHeader") => log[k] \notin {"Add", "Del"}
                 /\ (i < k /\ log[i] = "Write") => log[k] = "Write"
            /\ \A k \in 1..Len(log) :
                 log[k] = "Write" => \E i \in 1..(k - 1) : log[i] = "WriteHeader"
            /\ (pc[h] = "done" /\ nextCalls[h] = <<>>) =>
                 Occurrences(log, "WriteHeader") = 1

\* a lock-matched WebDAV failure: delete, add, status, body
C25_Witness ==
    \E h \in Handlers :
        /\ Failed(h)
        /\ req[h].Method = "PROPFIND"
        /\ w[h].log = <<"Del", "Add", "Del", "Add", "WriteHeader", "Write">>

(***************************************************************************)
(* C26.  The bypass rules and the public-path rules are mutually           *)
(* exclusive: no path both satisfies a bypass rule of the handler (exact   *)
(* path or prefix) and starts with a public-path prefix, so a path's       *)
(* outcome does not depend on which of the two checks is made first: a     *)
(* bypassed path is never treated as public, a public path never forwarded *)
(* without authentication.                                                 *)
(***************************************************************************)
C26_BypassPublicExclusive ==
    /\ \A b \in BypassPrefixes : \A i \in 1..Len(_publicPaths) :
          /\ ~ HasPrefix(Chars[b], Chars[_publicPaths[i]])
          /\ ~ HasPrefix(Chars[_publicPaths[i]], Chars[b])
    /\ \A e \in BypassExactPaths \cup {"/konnect/v1/token"} : ~ isPublicPath(e)
    /\ \A h \in Handlers :
        pc[h] # "idle" =>
            /\ ~ (IsBypass(req[h]) /\ isPublicPath(req[h].Path))
            /\ ~ (BypassClassified(req[h].Path) /\ PublicClassified(req[h].Path))
            /\ (isPublicPath(req[h].Path) /\ pc[h] = "done" /\ nextCalls[h] # <<>>) =>
                   invoked[h] # <<>>
            /\ IsBypass(req[h]) => rng[h] = <<>> /\ w[h].log = <<>>

\* a bypassed path that carries a public prefix further in; a public path declined
C26_Witness ==
    \E h \in Handlers :
        /\ pc[h] = "done"
        /\ req[h].Path = "/js/data"
        /\ IsBypass(req[h])
        /\ ~ isPublicPath(req[h].Path)
        /\ nextCalls[h] = <<req[h]>>

(***************************************************************************)
(* C27.  Every Authenticator of the chain is invoked with the original     *)
(* inbound request: the request an earlier Authenticator returned with     *)
(* ok=false is dropped; it reaches no later Authenticator, is not what the *)
(* next handler is given, and is not what the challenges and the body are  *)
(* built from.                                                             *)
(***************************************************************************)
C27_DeclinedRequestDropped ==
    \A h \in Handlers :
        /\ req[h].identity = 0
        /\ \A k \in 1..Len(invoked[h]) : invoked[h][k].arg = req[h].identity
        /\ \A n \in 1..Len(nextCalls[h]) :
             /\ nextCalls[h][n].identity >= 0
             /\ [nextCalls[h][n] EXCEPT !.identity = 0] = req[h]
        /\ (pc[h] = "done" /\ w[h].status # 0) =>
             /\ \A i \in Len(w[h].staged) + 1..Len(w[h].hdr) :
                  \E s \in {"bearer", "basic"} :
                      w[h].hdr[i] = ChallengeText(s, req[h].Host)
             /\ w[h].body # <<>> <=> req[h].Method \in WebdavMethods

\* the second Authenticator called after the first declined, then accepting
C27_Witness ==
    \E h \in Handlers :
        /\ pc[h] = "done"
        /\ Len(invoked[h]) = 2
        /\ ~ invoked[h][1].ok
        /\ invoked[h][2].ok
        /\ invoked[h][2].arg = 0
        /\ nextCalls[h] # <<>>
        /\ nextCalls[h][1].identity = auths[2]

(***************************************************************************)
(* C28.  When a request is forwarded (bypass or successful                 *)
(* authentication) the chain has added no Www-Authenticate value and       *)
(* written no status or body before the call of the next handler, calls it *)
(* once, and writes nothing after it returns.                              *)
(***************************************************************************)
C28_ForwardedResponseUntouched ==
    \A h \in Handlers :
        nextCalls[h] # <<>> =>
            /\ Len(nextCalls[h]) = 1
            /\ pc[h] = "done"
            /\ w[h].hdr = w[h].staged
            /\ w[h].status = 0
            /\ w[h].body = <<>>
            /\ w[h].log = <<>>

\* forwarded by the second Authenticator, the staged value still the only one
C28_Witness ==
    \E h \in Handlers :
        /\ nextCalls[h] # <<>>
        /\ Len(invoked[h]) = 2
        /\ ~ invoked[h][1].ok
        /\ w[h].staged # <<>>
        /\ w[h].hdr = w[h].staged
        /\ w[h].log = <<>>

(***************************************************************************)
(* C29.  A failing non-public request on a lock-scoped URI, with at least  *)
(* one supported scheme and a non-empty lock mapping, that carries an      *)
(* empty User-Agent matches every lock key: its answer has exactly one     *)
(* Www-Authenticate value, for a scheme the lock mapping names, and not    *)
(* the list of the supported schemes.                                      *)
(***************************************************************************)
C29_EmptyUserAgentLocked ==
    \A h \in Handlers :
        ( /\ Failed(h)
          /\ ~ PublicClassified(req[h].Path)
          /\ InLockScope(h)
          /\ Len(rng[h]) >= 1
          /\ DOMAIN options.CredentialsByUserAgent # {}
          /\ req[h].UserAgent = "" ) =>
            /\ \A k \in DOMAIN options.CredentialsByUserAgent :
                   Contains(Chars[k], Chars[req[h].UserAgent])
            /\ Len(w[h].hdr) = 1
            /\ w[h].hdr[1] \in
                   { ChallengeText(options.CredentialsByUserAgent[k], req[h].Host) :
                       k \in DOMAIN options.CredentialsByUserAgent }
            /\ Len(rng[h]) >= 2 =>
                   w[h].hdr # [i \in 1..Len(rng[h]) |->
                                  ChallengeText(rng[h][i], req[h].Host)]

\* bearer and basic supported, one lock rule, no User-Agent: the one Basic challenge
C29_Witness ==
    \E h \in Handlers :
        /\ Failed(h)
        /\ InLockScope(h)
        /\ ~ PublicClassified(req[h].Path)
        /\ req[h].UserAgent = ""
        /\ rng[h] = <<"bearer", "basic">>
        /\ Cardinality(DOMAIN options.CredentialsByUserAgent) = 1
        /\ w[h].hdr = <<ChallengeText("basic", req[h].Host)>>

(***************************************************************************)
(* C30.  With no scheme enabled (issuer empty, Basic disabled) the         *)
(* supported-scheme list is empty and every failing non-bypassed request   *)
(* is answered 401 without any Www-Authenticate value from the chain, also *)
(* on a lock-scoped URI with a matching lock key; and with an empty        *)
(* Authenticator list every non-bypassed request is answered 401 and is    *)
(* never forwarded.                                                        *)
(***************************************************************************)
C30_NoSchemeNoChallenge ==
    /\ (options.OIDCIss = "" /\ ~ options.EnableBasicAuth) =>
          /\ SupportedAuthStrategies = <<>>
          /\ \A h \in Handlers :
               Failed(h) =>
                   /\ w[h].status = 401
                   /\ w[h].hdr = w[h].staged
                   /\ Occurrences(w[h].log, "Add") = 0
                   /\ Occurrences(w[h].log, "Del") = 0
                   /\ nextCalls[h] = <<>>
    /\ Len(auths) = 0 =>
          \A h \in Handlers :
              (pc[h] # "idle" /\ ~ BypassClassified(req[h].Path)) =>
                  /\ nextCalls[h] = <<>>
                  /\ invoked[h] = <<>>
                  /\ pc[h] = "done" => w[h].status = 401

\* nothing enabled, no Authenticator, a lock-scoped URI and a matching lock key
C30_Witness ==
    \E h \in Handlers :
        /\ Failed(h)
        /\ options.OIDCIss = ""
        /\ ~ options.EnableBasicAuth
        /\ Len(auths) = 0
        /\ InLockScope(h)
        /\ ~ PublicClassified(req[h].Path)
        /\ KeysContainingUserAgent(h) # {}
        /\ w[h].status = 401
        /\ w[h].hdr = <<>>

(***************************************************************************)
(* C31.  AuthenticationOld is OIDC-or-nothing: for each request it gives   *)
(* the request to the OIDC middleware exactly once when the issuer is      *)
(* non-empty, whether or not Basic is enabled, and never calls the next    *)
(* handler itself; when the issuer is empty it forwards nothing and writes *)
(* neither a 401 nor a challenge header.                                   *)
(***************************************************************************)
C31_OidcOrNothing ==
    \A h \in Handlers :
        /\ Len(oidcCalls[h]) <= 1
        /\ nextCalls[h] = <<>>
        /\ invoked[h] = <<>>
        /\ w[h].log = <<>>
        /\ w[h].status = 0
        /\ w[h].hdr = w[h].staged
        /\ pc[h] = "done" =>
             oidcCalls[h] = IF options.OIDCIss # "" THEN <<req[h]>> ELSE <<>>

\* issuer set and Basic enabled: the request went to the OIDC middleware once
C31_Witness ==
    \E h \in Handlers :
        /\ pc[h] = "done"
        /\ options.OIDCIss # ""
        /\ options.EnableBasicAuth
        /\ req[h].Path = "/remote.php/webdav/doc.txt"
        /\ oidcCalls[h] = <<req[h]>>

(***************************************************************************)
(* Vocabulary of the property about termination.                           *)
(***************************************************************************)
\* the calls of evalRequestURI made so far for handler h: one per scope
\* pattern for each scheme the challenge loop has passed
LockEvaluations(h) == (j[h] - 1) * Len(ProxyWwwAuthenticate)

\* the handler's position in the order Evaluating, challenges, terminal
Stage(h) == CASE pc[h] = "auth" -> 1
              [] pc[h] = "challenge" -> 2
              [] pc[h] = "done" -> 3
              [] OTHER -> 0

(***************************************************************************)
(* C32.  Provided every Authenticate call and the next handler return,     *)
(* the handling of a request ends in a terminal state (pass-through,       *)
(* Authenticated or Unauthenticated) after at most len(auths)              *)
(* Authenticator invocations and at most len(schemes) x len(scope          *)
(* patterns) lock evaluations; the chain never goes back to an earlier     *)
(* Authenticator nor to an earlier stage, and repeats no invocation.       *)
(***************************************************************************)
C32_Terminates ==
    /\ [] \A h \in Handlers :
            /\ Len(invoked[h]) <= Len(auths)
            /\ pc[h] = "auth" => Len(invoked[h]) = idx[h] - 1
            /\ LockEvaluations(h) <= Len(rng[h]) * Len(ProxyWwwAuthenticate)
            /\ pc[h] = "done" =>
                 \/ nextCalls[h] # <<>> /\ w[h].status = 0
                 \/ nextCalls[h] = <<>> /\ w[h].status = 401
    /\ [][ \A h \in Handlers :
             pc[h] \in {"auth", "challenge"} =>
                 /\ Stage(h)' >= Stage(h)
                 /\ idx'[h] >= idx[h]
                 /\ j'[h] >= j[h]
                 /\ Len(invoked'[h]) >= Len(invoked[h]) ]_vars
    /\ \A h \in Handlers : (pc[h] \in {"auth", "challenge"}) ~> (pc[h] = "done")

\* two Authenticators and two schemes used up: declined, challenged, answered
C32_Witness ==
    \E h \in Handlers :
        /\ pc[h] = "done"
        /\ Len(auths) = 2
        /\ Len(invoked[h]) = 2
        /\ rng[h] = <<"bearer", "basic">>
        /\ LockEvaluations(h) = 2 * Len(ProxyWwwAuthenticate)
        /\ w[h].status = 401
=============================================================================
